---- MODULE Spec2Model ----
(***************************************************************************)
(* bytemare/decaf448: field arithmetic (fe.go, first part), the extended   *)
(* Edwards point layer (fe.go, second part) and the Decaf encode / decode  *)
(* / one-way map layer (decaf.go).                                         *)
(*                                                                         *)
(* Scaling.  TLC's integers are 32 bits wide, the field of the source is   *)
(* 448 bits wide.  The model keeps every formula of the source and scales  *)
(* the field to the prime 739, which has the structure the source relies   *)
(* on: 739 = 3 (mod 4); with D = -39081 (mod 739) = 86 the value -D is a   *)
(* square and D is not; the curve x^2 + y^2 = 1 + D x^2 y^2 has 724 = 4 *  *)
(* 181 points with 181 prime (cofactor 4, as for 4 * l in the source).     *)
(* An encoding takes as many bytes as the prime needs: 2 here, 56 in the   *)
(* source.  Byte strings are sequences of numbers in 0..255.               *)
(***************************************************************************)
EXTENDS Integers, Sequences, FiniteSets, TLC

VARIABLES
    pc,         \* which call has been made, and how it ended
    input,      \* the byte string handed to Decode / OneWayMap
    e,          \* the DecafElement's point e.p
    out,        \* the byte string Encode returned
    err,        \* the panic a call raised, "" when none
    fe,         \* Element: the receiver of a field call
    u,          \* Element: first argument of a field call (a pointer: callee sees and may change it)
    v,          \* Element: second argument of a field call
    fe0,        \* the receiver's value before the call
    u0,         \* the first argument's value before the call
    condition,  \* SwapCT's condition
    wasSquare,  \* SqrtRatio's first result
    p,          \* Point: the receiver of a point call
    q,          \* Point: the argument of a point call
    p0,         \* the receiver's value before the call
    s,          \* ScalarMult's scalar
    r0,         \* ScalarMult's first accumulator
    r1,         \* ScalarMult's second accumulator
    i,          \* ScalarMult's loop index
    res,        \* IsEqual's / IsInfinity's result
    steps       \* the operations applied so far to the point p of a chain

vars == <<pc, input, e, out, err, fe, u, v, fe0, u0, condition, wasSquare,
          p, q, p0, s, r0, r1, i, res, steps>>

decafVars == <<input, e, out, err>>
fieldVars == <<fe, u, v, fe0, u0, condition, wasSquare>>
pointVars == <<p, q, p0, s, r0, r1, i, res>>
chainVars == <<steps>>

----------------------------------------------------------------------------
(* Constants of the source, scaled. *)

\* fe.go:21 fieldOrder, p = 2^448 - 2^224 - 1 in the source
fieldOrder == 739

\* fe.go:25 curveOrder (the source's name for the field prime)
curveOrder == fieldOrder

\* fe.go:346 orderPrime / groupOrder, l in the source; curve order is 4 * l
groupOrder == 181

\* decaf.go:118 the length of an encoding: the bytes the field prime needs
EncodedLength == 2

zero == 0

one == 1

two == 2

\* decaf.go:133
four == 4

\* fe.go:116 big.Int.Mod: the Euclidean modulus, always in 0..mod-1
reduce(x, mod) == x % mod

\* fe.go:29 Subtract(zero, one)
minusOne == reduce(zero - one, curveOrder)

\* fe.go:32 (p-3)/4
pMinus3Div4 == (fieldOrder - 3) \div 4

\* decaf.go:31 "39082"
oneMinusD == 39082 % fieldOrder

\* decaf.go:32 "78163"
oneMinusTwoD == 78163 % fieldOrder

\* decaf.go:36 D = -39081, written as p - 39081 in the source
D == (fieldOrder - 39081) % fieldOrder

\* decaf.go:33 the even square root of -D
sqrtMinusD == 192

\* decaf.go:34 its inverse (even too, as in the source)
invSqrtMinusD == 204

----------------------------------------------------------------------------
(* Bytes: math/big's conversions and fe.go's reverse. *)

Byte == 0..255

RECURSIVE reverse(_)
reverse(b) == IF Len(b) = 0 THEN << >>
              ELSE Append(reverse(Tail(b)), Head(b))

\* big.Int.SetBytes: the bytes as a big-endian unsigned integer
RECURSIVE SetBytes(_)
SetBytes(b) == IF Len(b) = 0 THEN 0
               ELSE b[Len(b)] + 256 * SetBytes(SubSeq(b, 1, Len(b) - 1))

\* big.Int.Bytes: the big-endian bytes of |x|, no leading zero, empty for 0
RECURSIVE IntBytes(_)
IntBytes(x) == IF x = 0 THEN << >>
               ELSE Append(IntBytes(x \div 256), x % 256)

\* big.Int.FillBytes into a buffer of n bytes: big-endian, zero-extended
FillBytes(x, n) == [k \in 1..n |-> (x \div (256 ^ (n - k))) % 256]

SetBytesBig(b) == SetBytes(b)

SetBytesLittle(b) == SetBytes(reverse(b))

Bytes(x) == IntBytes(x)

----------------------------------------------------------------------------
(* Element: arithmetic modulo the field prime. *)

ElementAdd(a, b) == reduce(a + b, curveOrder)

ElementSubtract(a, b) == reduce(a - b, curveOrder)

ElementMultiply(a, b) == reduce(a * b, curveOrder)

ElementSquare(a) == reduce(a * a, curveOrder)

ElementNegate(a) == reduce(0 - a, curveOrder)

\* big.Int.Exp(x, y, m) = x^y mod m for y > 0, and 1 for y <= 0
RECURSIVE ModExp(_, _, _)
ModExp(x, y, m) ==
    IF y <= 0 THEN 1 % m
    ELSE LET h == ModExp(x, y \div 2, m)
             hh == (h * h) % m
         IN IF y % 2 = 1 THEN (hh * (x % m)) % m ELSE hh

Exp(a, b) == ModExp(a, b, curveOrder)

expPMinus3mod4(a) == Exp(a, pMinus3Div4)

\* big.Int.Cmp
Compare(a, b) == IF a < b THEN -1 ELSE IF a > b THEN 1 ELSE 0

\* big.Int.Sign
Sign(a) == IF a < 0 THEN -1 ELSE IF a > 0 THEN 1 ELSE 0

IsZero(a) == IF Sign(a) = 0 THEN 1 ELSE 0

IsNegative(a) == IF Sign(a) = -1 THEN 1 ELSE 0

IsEqualCT(a, b) ==
    IF FillBytes(a, EncodedLength) = FillBytes(b, EncodedLength) THEN 1 ELSE 0

SelectCT(a, b, cond) == IF cond = 1 THEN a ELSE b

\* e.SwapCT(u, condition): <<the receiver, the argument>> after the call
SwapCT(a, b, cond) ==
    LET t == IF cond THEN b ELSE a
    IN <<t, b>>

IsSquareCT(a) ==
    LET pMinus1div2 == ElementSubtract(curveOrder, one) \div 2
    IN IsEqualCT(a, Exp(a, pMinus1div2)) = 1

AbsoluteCT(a) ==
    LET minU == ElementNegate(a)
    IN SelectCT(minU, a, IsNegative(a))

\* <<wasSquare, root>>
SqrtRatio(a, b) ==
    LET r1_ == ElementMultiply(a, b)
        r2_ == expPMinus3mod4(r1_)
        r3_ == ElementMultiply(r2_, a)
        check == ElementMultiply(b, ElementSquare(r3_))
    IN <<IsEqualCT(check, a), AbsoluteCT(r3_)>>

----------------------------------------------------------------------------
(* Point: extended coordinates (X, Y, T, Z). *)

Pt(x, y, t, z) == [X |-> x, Y |-> y, T |-> t, Z |-> z]

pZero == Pt(0, 1, 0, 1)

\* the zero value of the Point struct (NewGroupElement, var p Point)
zeroValuePoint == Pt(0, 0, 0, 0)

\* Negate without the negation of T
PointNegate_KeepT(a) == Pt(ElementNegate(a.X), a.Y, a.T, a.Z)

PointNegate(a) == Pt(ElementNegate(a.X), a.Y, ElementNegate(a.T), a.Z)

\* IsEqual with the two comparisons and-ed
PointIsEqual_And(a, b) ==
    LET f0 == ElementMultiply(a.X, b.Y)
        f1 == ElementMultiply(a.Y, b.X)
        g0 == ElementMultiply(a.Y, b.Y)
        g1 == ElementMultiply(a.X, b.X)
    IN IF IsEqualCT(f0, f1) = 1 /\ IsEqualCT(g0, g1) = 1 THEN 1 ELSE 0

PointIsEqual(a, b) ==
    LET f0 == ElementMultiply(a.X, b.Y)
        f1 == ElementMultiply(a.Y, b.X)
        res1 == IsEqualCT(f0, f1)
        g0 == ElementMultiply(a.Y, b.Y)
        g1 == ElementMultiply(a.X, b.X)
        res2 == IsEqualCT(g0, g1)
    IN IF res1 = 1 \/ res2 = 1 THEN 1 ELSE 0    \* res | IsEqualCT, on 0/1 values

IsInfinity(a) == PointIsEqual(a, pZero)

Copy(a) == Pt(a.X, a.Y, a.T, a.Z)

\* Double with D = a * A for a = -1
PointDouble_MinusOne(a) ==
    LET aa == ElementSquare(a.X)
        bb == ElementSquare(a.Y)
        cc == ElementMultiply(two, ElementSquare(a.Z))
        dd == ElementNegate(aa)
        ee == ElementSubtract(ElementSubtract(
                  ElementSquare(ElementAdd(a.X, a.Y)), aa), bb)
        gg == ElementAdd(dd, bb)
        ff == ElementSubtract(gg, cc)
        hh == ElementSubtract(dd, bb)
    IN Pt(ElementMultiply(ee, ff), ElementMultiply(gg, hh),
          ElementMultiply(ee, hh), ElementMultiply(ff, gg))

PointDouble(a) ==
    LET aa == ElementSquare(a.X)
        bb == ElementSquare(a.Y)
        cc == ElementMultiply(two, ElementSquare(a.Z))
        dd == aa
        ee == ElementSubtract(ElementSubtract(
                  ElementSquare(ElementAdd(a.X, a.Y)), aa), bb)
        gg == ElementAdd(dd, bb)
        ff == ElementSubtract(gg, cc)
        hh == ElementSubtract(dd, bb)
    IN Pt(ElementMultiply(ee, ff), ElementMultiply(gg, hh),
          ElementMultiply(ee, hh), ElementMultiply(ff, gg))

\* a.Add(b): the receiver after the call
PointAdd(a, b) ==
    LET aa == ElementMultiply(a.X, b.X)
        bb == ElementMultiply(a.Y, b.Y)
        cc == ElementMultiply(ElementMultiply(b.T, a.T), D)
        dd == ElementMultiply(a.Z, b.Z)
        ee1 == ElementAdd(a.X, a.Y)
        ff1 == ElementAdd(b.X, b.Y)
        ee == ElementSubtract(ElementSubtract(
                  ElementMultiply(ee1, ff1), aa), bb)
        ff == ElementSubtract(dd, cc)
        gg == ElementAdd(dd, cc)
        hh == ElementSubtract(bb, aa)
    IN Pt(ElementMultiply(ee, ff), ElementMultiply(gg, hh),
          ElementMultiply(ee, hh), ElementMultiply(ff, gg))

PointSubtract(a, b) == PointAdd(a, PointNegate(b))

\* p.fromP2(q) on q = (x, y, z)
fromP2(x, y, z) ==
    Pt(ElementMultiply(x, z), ElementMultiply(y, y),
       ElementMultiply(x, y), ElementSquare(z))

\* big.Int.BitLen
RECURSIVE BitLen(_)
BitLen(x) == IF x = 0 THEN 0 ELSE 1 + BitLen(x \div 2)

\* big.Int.Bit
Bit(x, k) == (x \div (2 ^ k)) % 2

\* the loop body with the doublings on the wrong accumulator
ScalarMultStep_WrongDouble(a0, a1, b) ==
    IF b = 0
    THEN LET n1 == PointAdd(a1, a0) IN <<a0, PointDouble(n1)>>
    ELSE LET n0 == PointAdd(a0, a1) IN <<PointDouble(n0), a1>>

\* one iteration of ScalarMult's loop on <<r0, r1>> for bit b
ScalarMultStep(a0, a1, b) ==
    IF b = 0
    THEN LET n1 == PointAdd(a1, a0) IN <<PointDouble(a0), n1>>
    ELSE LET n0 == PointAdd(a0, a1) IN <<n0, PointDouble(a1)>>

\* the loop from index k down to 0; each iteration's accumulators are values
\* before the next iteration starts
RECURSIVE ScalarMultLoop(_, _, _, _)
ScalarMultLoop(sc, a0, a1, k) ==
    IF k < 0 THEN a0
    ELSE CHOOSE r \in {ScalarMultLoop(sc, n[1], n[2], k - 1) :
                          n \in {ScalarMultStep(a0, a1, Bit(sc, k))}} : TRUE

\* p.ScalarMult(s, q) for s < groupOrder: the receiver after the call
ScalarMult(sc, b) == ScalarMultLoop(sc, pZero, Copy(b), BitLen(sc) - 1)

----------------------------------------------------------------------------
(* DecafElement: Encode, Decode, OneWayMap. *)

\* the field element Encode serialises
EncodeS(a) ==
    LET u1a == ElementMultiply(ElementAdd(a.X, a.T), ElementSubtract(a.X, a.T))
        u2a == ElementMultiply(ElementMultiply(ElementSquare(a.X), oneMinusD), u1a)
        invsqrt == SqrtRatio(one, u2a)[2]
        ratio == AbsoluteCT(ElementMultiply(ElementMultiply(invsqrt, u1a), sqrtMinusD))
        u2b == ElementSubtract(
                   ElementMultiply(ElementMultiply(invSqrtMinusD, ratio), a.Z), a.T)
    IN AbsoluteCT(ElementMultiply(
           ElementMultiply(ElementMultiply(oneMinusD, invsqrt), a.X), u2b))

Encode(a) == reverse(Bytes(EncodeS(a)))

\* Decode's computation on the integer it read: <<wasSquare, point>>
DecodeS(sv) ==
    LET ss == ElementSquare(sv)
        u1a == ElementAdd(ss, one)
        u2a == ElementSubtract(ElementMultiply(u1a, u1a),
                   ElementMultiply(ElementMultiply(four, D), ss))
        u22 == ElementMultiply(u2a, ElementMultiply(u1a, u1a))
        sr == SqrtRatio(one, u22)
        invsqrt == sr[2]
        u3 == AbsoluteCT(ElementMultiply(ElementMultiply(ElementMultiply(
                  ElementMultiply(two, sv), invsqrt), u1a), sqrtMinusD))
        x == ElementMultiply(ElementMultiply(ElementMultiply(u3, invsqrt), u2a),
                 invSqrtMinusD)
        y == ElementMultiply(ElementMultiply(ElementSubtract(one, ss), invsqrt), u1a)
        t == ElementMultiply(x, y)
    IN <<sr[1], Pt(x, y, t, one)>>

\* Decode with the range check off by one: Compare(...) == -1 lets s = p through
DecodeResult_OffByOne(b, old) ==
    IF Len(b) # EncodedLength THEN <<"invalid length", old>>
    ELSE LET sv == SetBytesLittle(b)
         IN IF Compare(curveOrder, sv) = -1 THEN <<"out of order", old>>
            ELSE IF IsNegative(sv) = 1 THEN <<"negative", old>>
            ELSE LET d == DecodeS(sv)
                 IN IF ~(d[1] = 1) THEN <<"not square", old>>
                    ELSE <<"", d[2]>>

\* Decode: <<the panic raised ("" when none), the element after the call>>
DecodeResult(b, old) ==
    IF Len(b) # EncodedLength THEN <<"invalid length", old>>
    ELSE LET sv == SetBytesLittle(b)
         IN IF Compare(curveOrder, sv) # 1 THEN <<"out of order", old>>
            ELSE IF IsNegative(sv) = 1 THEN <<"negative", old>>
            ELSE LET d == DecodeS(sv)
                 IN IF ~(d[1] = 1) THEN <<"not square", old>>
                    ELSE <<"", d[2]>>

\* _map on a byte string read big-endian
Map(b) ==
    LET t == reduce(SetBytesBig(b), curveOrder)
        r == ElementNegate(ElementSquare(t))
        rMinOne == ElementSubtract(r, one)
        u0a == ElementMultiply(D, rMinOne)
        u01 == ElementAdd(u0a, one)
        u0r == ElementSubtract(u0a, r)
        u1a == ElementMultiply(u01, u0r)
        rPlusOne == ElementAdd(r, one)
        u1b == ElementMultiply(u1a, rPlusOne)
        sr == SqrtRatio(oneMinusTwoD, u1b)
        vPrime == SelectCT(sr[2], ElementMultiply(t, sr[2]), sr[1])
        sgn == SelectCT(one, minusOne, sr[1])
        sv == ElementMultiply(vPrime, rPlusOne)
        w0 == ElementMultiply(two, AbsoluteCT(sv))
        w1 == ElementAdd(sv, one)      \* w1.Square(&s) is overwritten by w1.Add(&s, one)
        w2 == ElementSubtract(ElementSquare(sv), one)
        w3 == ElementAdd(ElementMultiply(ElementMultiply(
                  ElementMultiply(vPrime, sv), rMinOne), oneMinusTwoD), sgn)
    IN Pt(ElementMultiply(w0, w3), ElementMultiply(w2, w1),
          ElementMultiply(w0, w2), ElementMultiply(w1, w3))

\* OneWayMap on an input of at least 2 * EncodedLength bytes
OneWayMapPoint(b) ==
    LET rv == reverse(b)
    IN CHOOSE r \in {PointAdd(p1, p2) :
                        p1 \in {Map(SubSeq(rv, 1, EncodedLength))},
                        p2 \in {Map(SubSeq(rv, EncodedLength + 1,
                                            2 * EncodedLength))}} : TRUE

----------------------------------------------------------------------------
(* Bounds of the model and the inputs drawn within them. *)

\* high bytes 0..MaxHighByte of the two-byte Decode inputs enumerated in full
MaxHighByte == 3

\* bytes 0..MaxMapByte (and 255) make up the OneWayMap inputs
MaxMapByte == 2

\* longest input of a wrong length
MaxInputLength == 3

\* receivers 0..MaxElement of the field calls
MaxElement == 3

\* affine x coordinates within MaxCoord of 0, on either side
MaxCoord == 3

\* projective scalings Z = 1..MaxZ of each affine point
MaxZ == 2

Elements == 0..(fieldOrder - 1)

AllFF(n) == [k \in 1..n |-> 255]

\* strings of the encoding's length: every low byte, the high bytes within the
\* bound, and the all-0xFF string
DecodeInputs ==
    {<<lo, hi>> : lo \in Byte, hi \in 0..MaxHighByte} \cup {AllFF(EncodedLength)}

EdgeBytes == {0, 2, 255}

\* strings of every other length up to MaxInputLength
WrongLengthInputs ==
    UNION {[1..n -> EdgeBytes] : n \in (0..MaxInputLength) \ {EncodedLength}}

MapBytes == (0..MaxMapByte) \cup {255}

\* strings of twice the encoding's length
MapInputs == [1..(2 * EncodedLength) -> MapBytes]

Inputs == DecodeInputs \cup WrongLengthInputs \cup MapInputs

Coords == (0..MaxCoord) \cup {fieldOrder - k : k \in 1..MaxCoord}

\* the curve of fe.go:18: x^2 + y^2 = 1 + D x^2 y^2
OnCurveAffine(x, y) ==
    (x * x + y * y) % fieldOrder
        = (1 + D * ((x * x * y) % fieldOrder) * y) % fieldOrder

\* the curve with a = -1: -x^2 + y^2 = 1 + D x^2 y^2
OnTwistedAffine(x, y) ==
    (y * y - x * x) % fieldOrder
        = (1 + D * ((x * x * y) % fieldOrder) * y) % fieldOrder

AffineInputs ==
    {xy \in Coords \X Elements :
        OnCurveAffine(xy[1], xy[2]) \/ OnTwistedAffine(xy[1], xy[2])}

Scaled(x, y, z) ==
    Pt((x * z) % fieldOrder, (y * z) % fieldOrder,
       (((x * y) % fieldOrder) * z) % fieldOrder, z)

\* points a caller can build: both curves' points near x = 0 in every scaling,
\* and the zero value
PointInputs ==
    {Scaled(xy[1], xy[2], z) : xy \in AffineInputs, z \in 1..MaxZ}
        \cup {zeroValuePoint}

Scalars == 0..groupOrder

----------------------------------------------------------------------------
(* The Decaf layer: one element, decoded or mapped from an input, encoded. *)

decafIdle == /\ input = << >> /\ e = zeroValuePoint /\ out = << >> /\ err = ""

fieldIdle == /\ fe = 0 /\ u = 0 /\ v = 0 /\ fe0 = 0 /\ u0 = 0
             /\ condition = FALSE /\ wasSquare = 0

pointIdle == /\ p = zeroValuePoint /\ q = zeroValuePoint /\ p0 = zeroValuePoint
             /\ s = 0 /\ r0 = zeroValuePoint /\ r1 = zeroValuePoint
             /\ i = 0 /\ res = 0

chainIdle == steps = 0

\* e := NewGroupElement(), and an input chosen by the caller
Init ==
    /\ pc = "new"
    /\ input \in Inputs
    /\ e = zeroValuePoint
    /\ out = << >>
    /\ err = ""
    /\ fieldIdle
    /\ pointIdle
    /\ chainIdle

\* e.Decode(input)
Decode ==
    /\ pc = "new"
    /\ LET r == DecodeResult(input, e)
       IN /\ err' = r[1]
          /\ e' = r[2]
          /\ pc' = IF r[1] = "" THEN "decoded" ELSE "panic"
    /\ UNCHANGED <<input, out, fieldVars, pointVars, chainVars>>

\* e.OneWayMap(input); slicing v[:56] / v[56:112] of a shorter copy panics
OneWayMap ==
    /\ pc = "new"
    /\ IF Len(input) < 2 * EncodedLength
       THEN /\ err' = "slice bounds out of range"
            /\ pc' = "panic"
            /\ e' = e
       ELSE /\ err' = ""
            /\ pc' = "mapped"
            /\ e' = OneWayMapPoint(input)
    /\ UNCHANGED <<input, out, fieldVars, pointVars, chainVars>>

\* out := e.Encode(), of a fresh, a decoded or a mapped element
EncodeCall ==
    /\ pc \in {"new", "decoded", "mapped"}
    /\ out' = Encode(e)
    /\ pc' = CASE pc = "new" -> "encoded"
               [] pc = "decoded" -> "reencoded"
               [] pc = "mapped" -> "mapencoded"
    /\ UNCHANGED <<input, e, err, fieldVars, pointVars, chainVars>>

Next == Decode \/ OneWayMap \/ EncodeCall

Spec == Init /\ [][Next]_vars

----------------------------------------------------------------------------
(* Claims about the Decaf layer, checked under Spec. *)

\* a byte string read as a little-endian unsigned integer
RECURSIVE LittleEndianValue(_)
LittleEndianValue(b) ==
    IF Len(b) = 0 THEN 0 ELSE Head(b) + 256 * LittleEndianValue(Tail(b))

\* the n-byte little-endian encoding of x
LittleEndianBytes(x, n) == [k \in 1..n |-> (x \div (256 ^ (k - 1))) % 256]

\* C1: round trip. After Decode accepted an input (of the encoding's length,
\* its integer below p and even) and Encode was applied to the decoded
\* element, the bytes returned are the input, byte for byte.
C1_RoundTrip ==
    pc = "reencoded" /\ LittleEndianValue(input) % 2 = 0 => out = input

\* C2: Encode returns exactly EncodedLength bytes, the little-endian encoding
\* of a canonical s in [0, p), whatever the element.
C2_EncodeLength ==
    pc \in {"encoded", "reencoded", "mapencoded"} =>
        /\ Len(out) = EncodedLength
        /\ \E sv \in Elements : out = LittleEndianBytes(sv, EncodedLength)

\* C3: Decode never returns an element for an input whose integer is odd
\* (negative under the sign convention).
C3_RejectNegative ==
    pc \in {"decoded", "reencoded"} => LittleEndianValue(input) % 2 = 0

\* an input of a wrong length, or of the right length with an integer >= p
C4_BadInput ==
    \/ Len(input) # EncodedLength
    \/ LittleEndianValue(input) >= fieldOrder

\* Decode is the call that was made on the input
C4_DecodeCalled ==
    \/ pc \in {"decoded", "reencoded"}
    \/ pc = "panic" /\ err # "slice bounds out of range"

\* C4: Decode signals a failure and returns no element for every input of a
\* wrong length and for every input of the right length whose integer is >= p
\* (the all-0xFF string among them): such an input is never accepted, the
\* panic names the reason, and the element is left as it was.
C4_RejectLengthAndNonCanonical ==
    /\ C4_BadInput => pc \notin {"decoded", "reencoded"}
    /\ C4_DecodeCalled /\ Len(input) # EncodedLength =>
           pc = "panic" /\ err = "invalid length"
    /\ C4_DecodeCalled /\ Len(input) = EncodedLength
           /\ LittleEndianValue(input) >= fieldOrder =>
           pc = "panic" /\ err = "out of order"
    /\ pc = "panic" => e = zeroValuePoint /\ out = << >>

\* C4 witness: the all-0xFF string was handed to Decode and refused.
C4_Witness ==
    /\ input = AllFF(EncodedLength)
    /\ pc = "panic"
    /\ err = "out of order"

\* the _map of the claim on a field element t, with the source's SqrtRatio
\* and AbsoluteCT
C5_ClaimedMap(t) ==
    LET r == ElementNegate(ElementSquare(t))
        u0a == ElementMultiply(D, ElementSubtract(r, one))
        u1a == ElementMultiply(ElementAdd(u0a, one), ElementSubtract(u0a, r))
        sr == SqrtRatio(oneMinusTwoD, ElementMultiply(ElementAdd(r, one), u1a))
        vPrime == IF sr[1] = 1 THEN sr[2] ELSE ElementMultiply(t, sr[2])
        sgn == IF sr[1] = 1 THEN one ELSE minusOne
        sv == ElementMultiply(vPrime, ElementAdd(r, one))
        w0 == ElementMultiply(two, AbsoluteCT(sv))
        w1 == ElementAdd(ElementSquare(sv), one)
        w2 == ElementSubtract(ElementSquare(sv), one)
        w3 == ElementAdd(ElementMultiply(ElementMultiply(ElementMultiply(
                  vPrime, sv), ElementSubtract(r, one)), oneMinusTwoD), sgn)
    IN Pt(ElementMultiply(w0, w3), ElementMultiply(w2, w1),
          ElementMultiply(w0, w2), ElementMultiply(w1, w3))

\* C5: OneWayMap returns P1 + P2, the _map images of the two halves of the
\* input, each half read little-endian and reduced, with _map as the claim
\* writes it (w1 = s^2 + 1).
C5_OneWayMapFormula ==
    pc \in {"mapped", "mapencoded"} /\ Len(input) = 2 * EncodedLength =>
        LET t1 == LittleEndianValue(SubSeq(input, 1, EncodedLength)) % fieldOrder
            t2 == LittleEndianValue(
                      SubSeq(input, EncodedLength + 1, 2 * EncodedLength))
                      % fieldOrder
        IN \A p1 \in {C5_ClaimedMap(t1)}, p2 \in {C5_ClaimedMap(t2)} :
               e = PointAdd(p1, p2)

----------------------------------------------------------------------------
(* The field layer: one call of AbsoluteCT, SwapCT or SqrtRatio. *)

InitFe ==
    /\ pc = "new"
    /\ fe \in 0..MaxElement
    /\ u = 0 /\ v = 0 /\ fe0 = 0 /\ u0 = 0
    /\ condition = FALSE /\ wasSquare = 0
    /\ decafIdle
    /\ pointIdle
    /\ chainIdle

\* fe.AbsoluteCT(&u)
AbsoluteCTCall ==
    /\ pc = "new"
    /\ \E a \in Elements :
        /\ fe0' = fe
        /\ u0' = a
        /\ u' = a
        /\ fe' = AbsoluteCT(a)
    /\ pc' = "abs"
    /\ UNCHANGED <<v, condition, wasSquare, decafVars, pointVars, chainVars>>

\* fe.SwapCT(&u, condition)
SwapCTCall ==
    /\ pc = "new"
    /\ \E a \in Elements, c \in BOOLEAN :
        LET r == SwapCT(fe, a, c)
        IN /\ fe0' = fe
           /\ u0' = a
           /\ condition' = c
           /\ fe' = r[1]
           /\ u' = r[2]
    /\ pc' = "swap"
    /\ UNCHANGED <<v, wasSquare, decafVars, pointVars, chainVars>>

\* wasSquare, _ := fe.SqrtRatio(&u, &v)
SqrtRatioCall ==
    /\ pc = "new"
    /\ \E a \in 0..MaxElement, b \in Elements :
        LET r == SqrtRatio(a, b)
        IN /\ fe0' = fe
           /\ u0' = a
           /\ u' = a
           /\ v' = b
           /\ wasSquare' = r[1]
           /\ fe' = r[2]
    /\ pc' = "sqrt"
    /\ UNCHANGED <<condition, decafVars, pointVars, chainVars>>

NextFe == AbsoluteCTCall \/ SwapCTCall \/ SqrtRatioCall

SpecFe == InitFe /\ [][NextFe]_vars

\* C9: AbsoluteCT(a) is a when a's canonical representative is even and -a
\* when it is odd, so the result is even; the root SqrtRatio returns is even
\* whether or not was_square is set.
C9_AbsoluteIsEven ==
    /\ pc = "abs" =>
           /\ fe = (IF u0 % 2 = 0 THEN u0 ELSE (fieldOrder - u0) % fieldOrder)
           /\ fe % 2 = 0
    /\ pc = "sqrt" => fe % 2 = 0

\* C10: after a.SwapCT(b, true) a holds b's old value and b holds a's old
\* value; after a.SwapCT(b, false) both are unchanged.
C10_SwapExchanges ==
    pc = "swap" =>
        IF condition THEN fe = u0 /\ u = fe0
        ELSE fe = fe0 /\ u = u0

----------------------------------------------------------------------------
(* The point layer: one call of IsEqual, IsInfinity, Double, Add or        *)
(* ScalarMult on a point the caller built.                                 *)

InitPt ==
    /\ pc = "new"
    /\ p \in PointInputs
    /\ q = zeroValuePoint /\ p0 = zeroValuePoint
    /\ s = 0 /\ r0 = zeroValuePoint /\ r1 = zeroValuePoint
    /\ i = 0 /\ res = 0
    /\ decafIdle
    /\ fieldIdle
    /\ chainIdle

\* res := p.IsEqual(&q)
IsEqualCall ==
    /\ pc = "new"
    /\ \E b \in PointInputs :
        /\ q' = b
        /\ res' = PointIsEqual(p, b)
    /\ pc' = "isequal"
    /\ UNCHANGED <<p, p0, s, r0, r1, i, decafVars, fieldVars, chainVars>>

\* res := p.IsInfinity()
IsInfinityCall ==
    /\ pc = "new"
    /\ res' = IsInfinity(p)
    /\ pc' = "isinfinity"
    /\ UNCHANGED <<p, q, p0, s, r0, r1, i, decafVars, fieldVars, chainVars>>

\* p.Double()
DoubleCall ==
    /\ pc = "new"
    /\ p0' = p
    /\ p' = PointDouble(p)
    /\ pc' = "double"
    /\ UNCHANGED <<q, s, r0, r1, i, res, decafVars, fieldVars, chainVars>>

\* p.Add(&q)
AddCall ==
    /\ pc = "new"
    /\ \E b \in PointInputs :
        /\ q' = b
        /\ p0' = p
        /\ p' = PointAdd(p, b)
    /\ pc' = "add"
    /\ UNCHANGED <<s, r0, r1, i, res, decafVars, fieldVars, chainVars>>

\* p.ScalarMult(&s, &q) with q a copy of p: the range check and the
\* accumulators' initial values
ScalarMultBegin ==
    /\ pc = "new"
    /\ \E sc \in Scalars :
        /\ s' = sc
        /\ q' = Copy(p)
        /\ p0' = p
        /\ IF Compare(groupOrder, sc) <= 0
           THEN /\ pc' = "panic"
                /\ UNCHANGED <<r0, r1, i>>
           ELSE /\ pc' = "scalarmult-loop"
                /\ r0' = pZero
                /\ r1' = Copy(p)
                /\ i' = BitLen(sc) - 1
    /\ UNCHANGED <<p, res, decafVars, fieldVars, chainVars>>

\* one iteration of the loop
ScalarMultIterate ==
    /\ pc = "scalarmult-loop"
    /\ i >= 0
    /\ LET n == ScalarMultStep(r0, r1, Bit(s, i))
       IN /\ r0' = n[1]
          /\ r1' = n[2]
    /\ i' = i - 1
    /\ UNCHANGED <<pc, p, q, p0, s, res, decafVars, fieldVars, chainVars>>

\* p.Set(r0) and return
ScalarMultEnd ==
    /\ pc = "scalarmult-loop"
    /\ i < 0
    /\ p' = r0
    /\ pc' = "scalarmult"
    /\ UNCHANGED <<q, p0, s, r0, r1, i, res, decafVars, fieldVars, chainVars>>

NextPt ==
    \/ IsEqualCall \/ IsInfinityCall \/ DoubleCall \/ AddCall
    \/ ScalarMultBegin \/ ScalarMultIterate \/ ScalarMultEnd

SpecPt == InitPt /\ [][NextPt]_vars

----------------------------------------------------------------------------
(* Claims about the point layer, checked under SpecPt. *)

Mul(a, b) == (a * b) % fieldOrder

\* the two cross-product equalities of IsEqual
C6_FirstEquality(a, b) == Mul(a.X, b.Y) = Mul(a.Y, b.X)

C6_SecondEquality(a, b) == Mul(a.Y, b.Y) = Mul(a.X, b.X)

\* C6 as stated: IsEqual returns 1 if and only if both cross-product
\* equalities hold, and IsInfinity(P) is IsEqual(P, (0, 1, 0, 1)).
C6_IsEqualBoth ==
    /\ pc = "isequal" =>
           (res = 1 <=> (C6_FirstEquality(p, q) /\ C6_SecondEquality(p, q)))
    /\ pc = "isinfinity" =>
           (res = 1 <=> (C6_FirstEquality(p, Pt(0, 1, 0, 1))
                            /\ C6_SecondEquality(p, Pt(0, 1, 0, 1))))

\* C6 as amended: IsEqual returns 1 if and only if at least one of the two
\* cross-product equalities holds and 0 when both fail; IsInfinity(P) is
\* IsEqual(P, (0, 1, 0, 1)).
C6_IsEqualEither ==
    /\ pc \in {"isequal", "isinfinity"} => res \in {0, 1}
    /\ pc = "isequal" =>
           (res = 1 <=> (C6_FirstEquality(p, q) \/ C6_SecondEquality(p, q)))
    /\ pc = "isinfinity" =>
           (res = 1 <=> (C6_FirstEquality(p, Pt(0, 1, 0, 1))
                            \/ C6_SecondEquality(p, Pt(0, 1, 0, 1))))

\* C6 witness: IsEqual returned 1 on two points for which exactly one
\* equality holds.
C6_Witness ==
    /\ pc = "isequal"
    /\ res = 1
    /\ C6_FirstEquality(p, q)
    /\ ~C6_SecondEquality(p, q)
    /\ p.X # 0

\* X*Y = T*Z, Z # 0
ExtendedCoordinates(a) == a.Z # 0 /\ Mul(a.X, a.Y) = Mul(a.T, a.Z)

\* on x^2 + y^2 = 1 + D x^2 y^2, in projective form (times Z^4)
OnCurve(a) ==
    LET xx == Mul(a.X, a.X)
        yy == Mul(a.Y, a.Y)
        zz == Mul(a.Z, a.Z)
    IN /\ ExtendedCoordinates(a)
       /\ (Mul(xx, zz) + Mul(yy, zz)) % fieldOrder
              = (Mul(zz, zz) + Mul(D, Mul(xx, yy))) % fieldOrder

\* on -x^2 + y^2 = 1 + D x^2 y^2, in projective form
OnTwistedCurve(a) ==
    LET xx == Mul(a.X, a.X)
        yy == Mul(a.Y, a.Y)
        zz == Mul(a.Z, a.Z)
    IN /\ ExtendedCoordinates(a)
       /\ (Mul(yy, zz) - Mul(xx, zz)) % fieldOrder
              = (Mul(zz, zz) + Mul(D, Mul(xx, yy))) % fieldOrder

\* the same projective point: the same affine (X/Z, Y/Z) and T/Z
SamePoint(a, b) ==
    /\ a.Z # 0 /\ b.Z # 0
    /\ Mul(a.X, b.Z) = Mul(b.X, a.Z)
    /\ Mul(a.Y, b.Z) = Mul(b.Y, a.Z)
    /\ Mul(a.T, b.Z) = Mul(b.T, a.Z)

\* C7 as stated: for every point of the curve -x^2 + y^2 = 1 - 39081 x^2 y^2,
\* Double(P) and Add(P, P) are equal (here: under IsEqual, the weakest
\* equality at hand).
C7_DoubleIsAddOnTwisted ==
    pc = "double" /\ OnTwistedCurve(p0) =>
        PointIsEqual(p, PointAdd(p0, p0)) = 1

\* C7 as amended: for every point of the curve x^2 + y^2 = 1 - 39081 x^2 y^2
\* (a = 1), Double(P) and Add(P, P) are the same projective point, and equal
\* under IsEqual.
C7_DoubleIsAdd ==
    pc = "double" /\ OnCurve(p0) =>
        /\ SamePoint(p, PointAdd(p0, p0))
        /\ PointIsEqual(p, PointAdd(p0, p0)) = 1

\* C7 witness: a point of the curve off the axes, not in affine form, doubled.
C7_Witness ==
    /\ pc = "double"
    /\ OnCurve(p0)
    /\ p0.X # 0 /\ p0.Y # 0 /\ p0.Z # 1
    /\ ~OnTwistedCurve(p0)

\* P + P by the unified addition
C8_Twice(a) == PointAdd(a, a)

\* the k-fold sum P + ... + P by additions alone, grouped by the binary
\* expansion of k: k P = 2 ((k div 2) P) + (k mod 2) P
RECURSIVE C8_Multiple(_, _)
C8_Multiple(k, a) ==
    IF k = 0 THEN pZero
    ELSE CHOOSE r \in {IF k % 2 = 1 THEN PointAdd(C8_Twice(h), a)
                        ELSE C8_Twice(h) :
                          h \in {C8_Multiple(k \div 2, a)}} : TRUE

\* P lies in the subgroup of prime order l
C8_PrimeOrder(a) == OnCurve(a) /\ SamePoint(C8_Multiple(groupOrder, a), pZero)

\* second summands of the scalar law
C8_Summands == {0, 1, 2, groupOrder \div 2, groupOrder - 2, groupOrder - 1}

\* C8: for a point P of the curve and 0 <= s < l: through the loop the first
\* accumulator is the sum of P over the bits consumed and the second is the
\* first plus P; ScalarMult returns the s-fold sum of P (Neutral for s = 0,
\* and for s > 0 the (s-1)-fold sum plus P), so P for s = 1; for P of prime
\* order, ScalarMult((s + s2) mod l, P) is
\* Add(ScalarMult(s, P), ScalarMult(s2, P)).
C8_ScalarMultIsSum ==
    /\ pc = "scalarmult-loop" /\ OnCurve(q) =>
           /\ SamePoint(r0, C8_Multiple(s \div (2 ^ (i + 1)), q))
           /\ SamePoint(r1, PointAdd(r0, q))
    /\ pc = "scalarmult" /\ OnCurve(q) =>
           /\ s < groupOrder
           /\ SamePoint(p, C8_Multiple(s, q))
           /\ s = 0 => SamePoint(p, pZero)
           /\ s = 1 => SamePoint(p, q)
           /\ s > 0 => \A m \in {ScalarMult(s - 1, q)} :
                           SamePoint(p, PointAdd(m, q))
           /\ C8_PrimeOrder(q) =>
                  \A s2 \in C8_Summands :
                      \A m \in {ScalarMult((s + s2) % groupOrder, q)},
                         m2 \in {ScalarMult(s2, q)} :
                          SamePoint(m, PointAdd(p, m2))

\* C8 witness: ScalarMult returned for the largest scalar on a point of
\* prime order other than the neutral element, so that s + s2 wraps.
C8_Witness ==
    /\ pc = "scalarmult"
    /\ s = groupOrder - 1
    /\ C8_PrimeOrder(q)
    /\ q.X # 0
    /\ q.Z # 1

----------------------------------------------------------------------------
(* Chains: a point is produced (pZero, Decode, _map, OneWayMap, fromP2, or  *)
(* built by the caller) and Negate, Add, Double and ScalarMult are applied  *)
(* to it one after the other.  ScalarMult runs its loop one iteration at a *)
(* time, as in the point layer.                                            *)

\* the longest chain of operations applied to one point
MaxSteps == 2

\* low bytes 0..MaxChainByte of the strings a chain decodes
MaxChainByte == 7

ChainHighBytes == {0, 2}

ChainDecodeInputs ==
    {<<lo, hi>> : lo \in 0..MaxChainByte, hi \in ChainHighBytes}
        \cup {AllFF(EncodedLength)}

\* the halves _map is called on, and the strings OneWayMap is called on
ChainMapHalves == [1..EncodedLength -> ChainHighBytes]

ChainMapInputs == [1..(2 * EncodedLength) -> ChainHighBytes]

\* the projP2 values fromP2 is called on
ChainP2 == 1..2

\* the second operands of Add
ChainOperands ==
    {pZero, zeroValuePoint, Map(<<0, 2>>), DecodeS(2)[2]}
        \cup {a \in PointInputs : a.X = 2 /\ a.Z = 2}

\* the scalars of ScalarMult: two in range, the largest, and the first refused
ChainScalars == {2, 3, groupOrder - 1, groupOrder}

InitChain ==
    /\ pc = "new"
    /\ steps = 0
    /\ decafIdle
    /\ fieldIdle
    /\ pointIdle

\* p := pZero()
ChainNeutral ==
    /\ pc = "new"
    /\ p' = pZero
    /\ pc' = "neutral"
    /\ UNCHANGED <<q, p0, s, r0, r1, i, res, decafVars, fieldVars, chainVars>>

\* p := Point{X, Y, T, Z}, the fields set by the caller
ChainGiven ==
    /\ pc = "new"
    /\ p' \in PointInputs
    /\ pc' = "given"
    /\ UNCHANGED <<q, p0, s, r0, r1, i, res, decafVars, fieldVars, chainVars>>

\* p.fromP2(&projP2{x, y, z})
ChainFromP2 ==
    /\ pc = "new"
    /\ \E x \in ChainP2, y \in ChainP2, z \in ChainP2 : p' = fromP2(x, y, z)
    /\ pc' = "fromP2"
    /\ UNCHANGED <<q, p0, s, r0, r1, i, res, decafVars, fieldVars, chainVars>>

\* e.Decode(input); p := e.p
ChainDecode ==
    /\ pc = "new"
    /\ \E b \in ChainDecodeInputs :
        LET r == DecodeResult(b, e)
        IN /\ input' = b
           /\ err' = r[1]
           /\ e' = r[2]
           /\ p' = IF r[1] = "" THEN r[2] ELSE p
           /\ pc' = IF r[1] = "" THEN "decoded" ELSE "panic"
    /\ UNCHANGED <<out, q, p0, s, r0, r1, i, res, fieldVars, chainVars>>

\* p := _map(input)
ChainMap ==
    /\ pc = "new"
    /\ \E b \in ChainMapHalves :
        /\ input' = b
        /\ p' = Map(b)
    /\ pc' = "map"
    /\ UNCHANGED <<e, out, err, q, p0, s, r0, r1, i, res, fieldVars, chainVars>>

\* e.OneWayMap(input); p := e.p
ChainOneWayMap ==
    /\ pc = "new"
    /\ \E b \in ChainMapInputs :
        /\ input' = b
        /\ e' = OneWayMapPoint(b)
        /\ p' = OneWayMapPoint(b)
    /\ pc' = "mapped"
    /\ UNCHANGED <<out, err, q, p0, s, r0, r1, i, res, fieldVars, chainVars>>

\* a point has been produced and the chain may go on
ChainOpen ==
    /\ pc \notin {"new", "panic", "scalarmult-loop"}
    /\ steps < MaxSteps

\* p.Negate(p)
ChainNegate ==
    /\ ChainOpen
    /\ p0' = p
    /\ p' = PointNegate(p)
    /\ pc' = "negate"
    /\ steps' = steps + 1
    /\ UNCHANGED <<q, s, r0, r1, i, res, decafVars, fieldVars>>

\* p.Add(&q)
ChainAdd ==
    /\ ChainOpen
    /\ \E b \in ChainOperands :
        /\ q' = b
        /\ p0' = p
        /\ p' = PointAdd(p, b)
    /\ pc' = "add"
    /\ steps' = steps + 1
    /\ UNCHANGED <<s, r0, r1, i, res, decafVars, fieldVars>>

\* p.Double()
ChainDouble ==
    /\ ChainOpen
    /\ p0' = p
    /\ p' = PointDouble(p)
    /\ pc' = "double"
    /\ steps' = steps + 1
    /\ UNCHANGED <<q, s, r0, r1, i, res, decafVars, fieldVars>>

\* p.ScalarMult(&s, p.Copy()): the range check (a scalar >= groupOrder
\* panics) and the accumulators' initial values; the loop and the return are
\* ScalarMultIterate and ScalarMultEnd
ChainScalarMultBegin ==
    /\ ChainOpen
    /\ \E sc \in ChainScalars :
        /\ s' = sc
        /\ q' = Copy(p)
        /\ p0' = p
        /\ IF Compare(groupOrder, sc) <= 0
           THEN /\ pc' = "panic"
                /\ UNCHANGED <<r0, r1, i>>
           ELSE /\ pc' = "scalarmult-loop"
                /\ r0' = pZero
                /\ r1' = Copy(p)
                /\ i' = BitLen(sc) - 1
    /\ steps' = steps + 1
    /\ UNCHANGED <<p, res, decafVars, fieldVars>>

NextChain ==
    \/ ChainNeutral \/ ChainGiven \/ ChainFromP2
    \/ ChainDecode \/ ChainMap \/ ChainOneWayMap
    \/ ChainNegate \/ ChainAdd \/ ChainDouble
    \/ ChainScalarMultBegin \/ ScalarMultIterate \/ ScalarMultEnd

SpecChain == InitChain /\ [][NextChain]_vars

\* X*Y = T*Z (mod p)
C11_Invariant(a) == Mul(a.X, a.Y) = Mul(a.T, a.Z)

\* C11: the point pZero, Decode, _map or OneWayMap returns satisfies
\* X*Y = T*Z (mod p), and so does the point Add, Double or ScalarMult leaves
\* in the receiver; Negate, Add, Double and ScalarMult, applied to a point
\* that satisfies it (with, for Add, a second operand that satisfies it),
\* leave a point that satisfies it, whatever the operations that came before;
\* through ScalarMult's loop both accumulators satisfy it.
C11_ExtendedCoordinateInvariant ==
    /\ pc \in {"neutral", "decoded", "map", "mapped"} => C11_Invariant(p)
    /\ pc \in {"decoded", "mapped"} => C11_Invariant(e) /\ e = p
    /\ pc \in {"add", "double", "scalarmult"} => C11_Invariant(p)
    /\ pc \in {"negate", "double", "scalarmult"} /\ C11_Invariant(p0) =>
           C11_Invariant(p)
    /\ pc = "add" /\ C11_Invariant(p0) /\ C11_Invariant(q) => C11_Invariant(p)
    /\ pc = "scalarmult-loop" =>
           /\ C11_Invariant(r0)
           /\ C11_Invariant(q) => C11_Invariant(r1)

\* C11 witness: a decoded or mapped element's point, off the axes and not in
\* affine form after a first operation, has been negated as the last
\* operation of a chain of MaxSteps or more.
C11_Witness ==
    /\ pc = "negate"
    /\ steps >= 2
    /\ e # zeroValuePoint
    /\ C11_Invariant(p0)
    /\ Mul(p0.X, p0.Y) # 0
    /\ p0.Z \notin {0, 1}
    /\ p.T # p0.T

====
